---------------------------- MODULE Spec2Model ----------------------------
(***************************************************************************)
(* Model of graphql-fields-list: fieldsMap, fieldsList, fieldsProjection   *)
(* and the private helpers they call.                                      *)
(*                                                                         *)
(* JavaScript strings that the code splits, concatenates or matches        *)
(* (field names, skip patterns, paths, projection keys) are sequences of   *)
(* one-character strings.  JavaScript values are tagged records, objects   *)
(* keep their keys in insertion order (Object.keys order).  The module is  *)
(* an ECMAScript module, hence strict-mode code: creating a property on a  *)
(* primitive throws a TypeError.  Names are ordinary identifiers, none a   *)
(* property of Object.prototype.                                           *)
(***************************************************************************)
EXTENDS Naturals, Sequences, FiniteSets, TLC

VARIABLES info, options, called, result, info0, options0, repeated, previous

vars == <<info, options, called, result, info0, options0, repeated, previous>>

---------------------------------------------------------------------------
(* JavaScript values                                                       *)

Undef == [t |-> "undefined"]

JSBool(b) == [t |-> "boolean", v |-> b]

JSTrue == JSBool(TRUE)

JSFalse == JSBool(FALSE)

JSStr(s) == [t |-> "string", s |-> s]

JSArr(a) == [t |-> "array", a |-> a]

\* an object: its own enumerable properties, <<key, value>>, in insertion order
Obj(entries) == [t |-> "object", e |-> entries]

EmptyObj == Obj(<<>>)

\* an exception leaving the call
Throw == [t |-> "TypeError"]

IsObj(x) == x.t = "object"

\* ToBoolean
Truthy(x) ==
    CASE x.t = "undefined" -> FALSE
      [] x.t = "boolean" -> x.v
      [] x.t = "string" -> x.s # <<>>
      [] OTHER -> TRUE

HasKey(o, k) == \E i \in 1..Len(o.e) : o.e[i][1] = k

\* o[k]; a property read on a boolean primitive is undefined
Get(o, k) ==
    IF IsObj(o) /\ HasKey(o, k)
    THEN o.e[CHOOSE i \in 1..Len(o.e) : o.e[i][1] = k][2]
    ELSE Undef

\* o[k] = v on an object: in place for an existing key, appended otherwise
Put(o, k, v) ==
    IF HasKey(o, k)
    THEN Obj([i \in 1..Len(o.e) |-> IF o.e[i][1] = k THEN <<k, v>> ELSE o.e[i]])
    ELSE Obj(Append(o.e, <<k, v>>))

\* Object.keys(o); Object.keys of a primitive is empty
Keys(o) == IF IsObj(o) THEN [i \in 1..Len(o.e) |-> o.e[i][1]] ELSE <<>>

SeqRange(s) == {s[i] : i \in 1..Len(s)}

---------------------------------------------------------------------------
(* Strings                                                                 *)

Dot == "."

Star == "*"

RECURSIVE SplitFrom(_, _, _)
\* String.prototype.split('.'): cur is the segment being read
SplitFrom(s, i, cur) ==
    IF i > Len(s) THEN <<cur>>
    ELSE IF s[i] = Dot THEN <<cur>> \o SplitFrom(s, i + 1, <<>>)
    ELSE SplitFrom(s, i + 1, Append(cur, s[i]))

Split(s) == SplitFrom(s, 1, <<>>)

RECURSIVE GlobMatch(_, _)
\* anchored match of a pattern whose `*` stands for `.*`
GlobMatch(p, s) ==
    IF p = <<>> THEN s = <<>>
    ELSE IF Head(p) = Star
    THEN GlobMatch(Tail(p), s) \/ (s # <<>> /\ GlobMatch(p, Tail(s)))
    ELSE s # <<>> /\ Head(s) = Head(p) /\ GlobMatch(Tail(p), Tail(s))

\* new RegExp(pattern.replace(RX_AST, '.*')).test(node): unanchored
RegexTest(pattern, node) == GlobMatch(<<Star>> \o pattern \o <<Star>>, node)

ContainsStar(s) == \E i \in 1..Len(s) : s[i] = Star

toDotNotationBare(parent, child) == child

toDotNotation(parent, child) ==
    IF parent # <<>> THEN parent \o <<Dot>> \o child ELSE child

---------------------------------------------------------------------------
(* Selection nodes                                                         *)

\* a FieldNode; selectionSet is undefined on a leaf
Field(name, dirs, hasSel, sels) ==
    [kind |-> "Field", name |-> name, directives |-> dirs,
     hasSelectionSet |-> hasSel, selections |-> sels]

Leaf(name) == Field(name, <<>>, FALSE, <<>>)

Node(name, sels) == Field(name, <<>>, TRUE, sels)

InlineFragment(dirs, sels) ==
    [kind |-> "InlineFragment", name |-> <<>>, directives |-> dirs,
     hasSelectionSet |-> TRUE, selections |-> sels]

FragmentSpread(name, dirs) ==
    [kind |-> "FragmentSpread", name |-> name, directives |-> dirs,
     hasSelectionSet |-> FALSE, selections |-> <<>>]

Directive(name, args) == [name |-> name, arguments |-> args]

BoolArg(b) == [kind |-> "BooleanValue", value |-> b, name |-> ""]

VarArg(v) == [kind |-> "Variable", value |-> FALSE, name |-> v]

OtherArg == [kind |-> "StringValue", value |-> FALSE, name |-> ""]

getNodes(selection) ==
    IF selection.hasSelectionSet THEN selection.selections ELSE <<>>

---------------------------------------------------------------------------
(* Directive Evaluator                                                     *)

checkValueInverted(name, value) ==
    IF name = "skip" THEN Truthy(value)
    ELSE IF name = "include" THEN ~Truthy(value) ELSE TRUE

\* the result is only ever used as a condition: its truthiness
checkValue(name, value) ==
    IF name = "skip" THEN ~Truthy(value)
    ELSE IF name = "include" THEN Truthy(value) ELSE TRUE

LookupVar(vs, v) == IF v \in DOMAIN vs THEN vs[v] ELSE Undef

verifyDirectiveArg(name, arg, vs) ==
    CASE arg.kind = "BooleanValue" -> checkValue(name, JSBool(arg.value))
      [] arg.kind = "Variable" -> checkValue(name, LookupVar(vs, arg.name))
      [] OTHER -> TRUE

verifyDirective(directive, vs) ==
    IF directive.name \notin {"include", "skip"} THEN TRUE
    ELSE \A i \in 1..Len(directive.arguments) :
            verifyDirectiveArg(directive.name, directive.arguments[i], vs)

verifyDirectives(directives, vs) ==
    \A i \in 1..Len(directives) : verifyDirective(directives[i], vs)

---------------------------------------------------------------------------
(* Skip-Pattern Compiler                                                   *)

RECURSIVE InsertProps(_, _, _)
\* the inner loop of skipTree from index i, propTree being the value the
\* loop variable refers to; the value returned is propTree after the loop,
\* or Throw.  In strict-mode code `propTree[prop] = ...` on the primitive
\* `true` throws; a read of a property of a primitive gives undefined.
InsertProps(propTree, props, i) ==
    IF i > Len(props) THEN propTree
    ELSE IF propTree.t = "undefined" THEN Throw
    ELSE LET prop == props[i]
             all == i + 1 <= Len(props) /\ props[i + 1] = <<Star>>
             cur == Get(propTree, prop)
         IN  IF ~Truthy(cur)
             THEN IF ~IsObj(propTree) THEN Throw
                  ELSE LET val == IF i = Len(props) \/ all THEN JSTrue ELSE EmptyObj
                           next == IF all THEN i + 2 ELSE i + 1
                           sub == InsertProps(val, props, next)
                       IN  IF sub = Throw THEN Throw ELSE Put(propTree, prop, sub)
             ELSE LET sub == InsertProps(cur, props, i + 1)
                  IN  IF sub = Throw THEN Throw ELSE Put(propTree, prop, sub)

RECURSIVE SkipTreeFrom(_, _, _)
\* the outer loop of skipTree from pattern j
SkipTreeFrom(tree, skip, j) ==
    IF j > Len(skip) THEN tree
    ELSE LET t2 == InsertProps(tree, Split(skip[j]), 1)
         IN  IF t2 = Throw THEN Throw ELSE SkipTreeFrom(t2, skip, j + 1)

skipTree(skip) == SkipTreeFrom(EmptyObj, skip, 1)

RECURSIVE ScanPatterns(_, _, _, _, _)
\* the wildcard loop of verifySkip from pattern k
ScanPatterns(node, skip, patterns, k, nodeTree) ==
    IF k > Len(patterns) THEN nodeTree
    ELSE IF RegexTest(patterns[k], node)
    THEN LET v == Get(skip, patterns[k])
         IN  IF v = JSTrue THEN v
             ELSE ScanPatterns(node, skip, patterns, k + 1, v)
    ELSE ScanPatterns(node, skip, patterns, k + 1, nodeTree)

verifySkipWildcardFirst(node, skip) ==
    IF ~Truthy(skip) THEN JSFalse
    ELSE IF ScanPatterns(node, skip, SelectSeq(Keys(skip), ContainsStar), 1, JSFalse) # JSFalse
    THEN ScanPatterns(node, skip, SelectSeq(Keys(skip), ContainsStar), 1, JSFalse)
    ELSE IF Truthy(Get(skip, node)) THEN Get(skip, node)
    ELSE JSFalse

verifySkip(node, skip) ==
    IF ~Truthy(skip) THEN JSFalse
    ELSE IF Truthy(Get(skip, node)) THEN Get(skip, node)
    ELSE ScanPatterns(node, skip, SelectSeq(Keys(skip), ContainsStar), 1, JSFalse)

---------------------------------------------------------------------------
(* Selection-Tree Walker                                                   *)

TraverseOptions(fragments, vs, withVars) ==
    [fragments |-> fragments, vars |-> vs, withVars |-> withVars]

\* opts.fragments[name] is truthy
IsFragment(opts, name) == name \in DOMAIN opts.fragments

RECURSIVE TraverseFrom(_, _, _, _, _)
\* the loop of traverse from node i; root is the map being filled
TraverseFrom(nodes, i, root, opts, skip) ==
    IF i > Len(nodes) THEN root
    ELSE LET node == nodes[i]
             name == node.name
             sub == getNodes(node)
             nodeSkip == verifySkip(name, skip)
             cur == Get(root, name)
             val == IF Truthy(cur) THEN cur
                    ELSE IF Len(sub) > 0 THEN EmptyObj ELSE JSFalse
             root1 ==
                IF Truthy(opts.withVars) /\ ~verifyDirectives(node.directives, opts.vars)
                THEN root
                ELSE IF node.kind = "InlineFragment"
                THEN IF Len(sub) > 0 THEN TraverseFrom(sub, 1, root, opts, skip)
                     ELSE root
                ELSE IF IsFragment(opts, name)
                THEN TraverseFrom(getNodes(opts.fragments[name]), 1, root, opts, skip)
                ELSE IF nodeSkip # JSTrue
                THEN IF Len(sub) > 0
                     THEN Put(root, name, TraverseFrom(sub, 1, val, opts, nodeSkip))
                     ELSE Put(root, name, val)
                ELSE root
         IN  TraverseFrom(nodes, i + 1, root1, opts, skip)

traverse(nodes, root, opts, skip) == TraverseFrom(nodes, 1, root, opts, skip)

---------------------------------------------------------------------------
(* Branch Extractor                                                        *)

RECURSIVE BranchFrom(_, _, _)
BranchFrom(tree, segs, i) ==
    IF i > Len(segs) THEN tree
    ELSE LET branch == Get(tree, segs[i])
         IN  IF ~Truthy(branch) THEN EmptyObj ELSE BranchFrom(branch, segs, i + 1)

getBranchLeaf(tree, path) ==
    IF ~Truthy(path) THEN tree
    ELSE IF Get(tree, Split(path.s)[1]) = JSFalse /\ Len(Split(path.s)) = 1
    THEN JSFalse
    ELSE BranchFrom(tree, Split(path.s), 1)

getBranch(tree, path) ==
    IF ~Truthy(path) THEN tree ELSE BranchFrom(tree, Split(path.s), 1)

---------------------------------------------------------------------------
(* Entry Resolver                                                          *)

Null == [t |-> "null"]

Info(fieldNodes, fieldASTs, fieldName, fragments, variableValues) ==
    [t |-> "object", fieldNodes |-> fieldNodes, fieldASTs |-> fieldASTs,
     fieldName |-> fieldName, fragments |-> fragments,
     variableValues |-> variableValues]

verifyFieldNode(inf) ==
    LET nodes == inf.fieldNodes.a
        hits == {i \in 1..Len(nodes) : nodes[i].name = inf.fieldName}
        first == CHOOSE i \in hits : \A j \in hits : i <= j
    IN  IF hits = {} THEN Null
        ELSE IF ~nodes[first].hasSelectionSet THEN Null
        ELSE [t |-> "node", n |-> nodes[first]]

InfoNoAlias(inf) == inf

\* info.fieldNodes = info.fieldASTs when only the legacy list is there
InfoAfterVerify(inf) ==
    IF inf.t = "object" /\ ~Truthy(inf.fieldNodes) /\ Truthy(inf.fieldASTs)
    THEN [inf EXCEPT !.fieldNodes = inf.fieldASTs]
    ELSE inf

\* the value verifyInfo returns
verifyInfo(inf) ==
    IF inf.t # "object" THEN Null
    ELSE IF ~Truthy(InfoAfterVerify(inf).fieldNodes) THEN Null
    ELSE verifyFieldNode(InfoAfterVerify(inf))

---------------------------------------------------------------------------
(* Options                                                                 *)

Options(path, transform, withDirectives, keepParentField, skip) ==
    [t |-> "object", path |-> path, transform |-> transform,
     withDirectives |-> withDirectives, keepParentField |-> keepParentField,
     skip |-> skip]

\* {}
NoOptions == Options(Undef, Undef, Undef, Undef, Undef)

\* the object parseOptions returns
parseOptions(opt) ==
    IF ~Truthy(opt) THEN NoOptions
    ELSE IF opt.withDirectives = Undef
    THEN [opt EXCEPT !.withDirectives = JSTrue]
    ELSE opt

OptionsAfterParseOff(opt) ==
    IF ~Truthy(opt) THEN opt
    ELSE IF opt.withDirectives = Undef
    THEN [opt EXCEPT !.withDirectives = JSFalse]
    ELSE opt

\* the caller's options object after parseOptions: the returned object is
\* the caller's own whenever one was passed
OptionsAfterParse(opt) == IF ~Truthy(opt) THEN opt ELSE parseOptions(opt)

---------------------------------------------------------------------------
(* Public operations.  Each has a return value (or Throw) and an effect on *)
(* the two argument objects.                                               *)

SkipList(parsed) == IF Truthy(parsed.skip) THEN parsed.skip.a ELSE <<>>

\* the value fieldsMap(info, options) returns
fieldsMap(inf, opt) ==
    LET fieldNode == verifyInfo(inf)
        inf1 == InfoAfterVerify(inf)
        parsed == parseOptions(opt)
        st == skipTree(SkipList(parsed))
    IN  IF fieldNode = Null THEN EmptyObj
        ELSE IF st = Throw THEN Throw
        ELSE getBranch(
                traverse(getNodes(fieldNode.n), EmptyObj,
                         TraverseOptions(inf1.fragments, inf1.variableValues,
                                         parsed.withDirectives),
                         st),
                parsed.path)

\* the options object after fieldsMap: parseOptions runs only past the
\* early return
OptionsAfterMap(inf, opt) ==
    IF verifyInfo(inf) = Null THEN opt ELSE OptionsAfterParse(opt)

\* `options: FieldsListOptions = {}`: a fresh object when omitted
ListOptions(opt) == IF opt = Undef THEN NoOptions ELSE opt

TransformOf(opt) ==
    IF Truthy(opt) /\ Truthy(opt.transform) THEN opt.transform ELSE EmptyObj

\* (transform)[field] || field
Renamed(transform, field) ==
    IF Truthy(Get(transform, field)) THEN Get(transform, field).s ELSE field

\* the value fieldsList(info, options) returns
fieldsList(inf, opt) ==
    LET tree == fieldsMap(inf, ListOptions(opt))
        transform == TransformOf(OptionsAfterMap(inf, ListOptions(opt)))
    IN  IF tree = Throw THEN Throw
        ELSE JSArr([i \in 1..Len(Keys(tree)) |-> Renamed(transform, Keys(tree)[i])])

One == [t |-> "number", v |-> 1]

KeepParent(opt) == Truthy(opt) /\ Truthy(opt.keepParentField)

RECURSIVE ProjectKeys(_, _, _, _, _)
\* the for loop of fieldsProjection over the keys of stack[0].tree from key
\* k; st = [stack, map]
ProjectKeys(keys, k, st, transform, keep) ==
    IF k > Len(keys) THEN st
    ELSE LET top == st.stack[1]
             j == keys[k]
             dotted == toDotNotation(top.node, j)
             st1 ==
                IF Truthy(Get(top.tree, j))
                THEN [stack |-> Append(st.stack, [node |-> dotted, tree |-> Get(top.tree, j)]),
                      map |-> IF keep THEN Put(st.map, dotted, One) ELSE st.map]
                ELSE [stack |-> st.stack,
                      map |-> Put(st.map, Renamed(transform, dotted), One)]
         IN  ProjectKeys(keys, k + 1, st1, transform, keep)

RECURSIVE ProjectLoop(_, _, _)
\* the while loop of fieldsProjection
ProjectLoop(st, transform, keep) ==
    IF st.stack = <<>> THEN st.map
    ELSE LET st1 == ProjectKeys(Keys(st.stack[1].tree), 1, st, transform, keep)
         IN  ProjectLoop([stack |-> Tail(st1.stack), map |-> st1.map], transform, keep)

\* the value fieldsProjection(info, options) returns
fieldsProjection(inf, opt) ==
    LET tree == fieldsMap(inf, opt)
    IN  IF tree = Throw THEN Throw
        ELSE ProjectLoop([stack |-> <<[node |-> <<>>, tree |-> tree]>>, map |-> EmptyObj],
                         TransformOf(OptionsAfterMap(inf, opt)),
                         KeepParent(OptionsAfterMap(inf, opt)))

\* the value an operation returns
Ret(op, inf, opt) ==
    CASE op = "fieldsMap" -> fieldsMap(inf, opt)
      [] op = "fieldsList" -> fieldsList(inf, opt)
      [] op = "fieldsProjection" -> fieldsProjection(inf, opt)

\* the caller's options object after any of the three operations: with the
\* options omitted there is no caller's object
OptionsAfterCall(inf, opt) == OptionsAfterMap(inf, opt)

---------------------------------------------------------------------------
(* Actions: a resolver calls one of the public operations on its info and  *)
(* options objects.  repeated tells that the call before it, on the same   *)
(* two objects, was to the same operation, and previous keeps what that    *)
(* call returned.                                                          *)

CallFieldsMap ==
    /\ called' = "fieldsMap"
    /\ result' = fieldsMap(info, options)
    /\ info' = InfoAfterVerify(info)
    /\ options' = OptionsAfterCall(info, options)
    /\ repeated' = (called = "fieldsMap")
    /\ previous' = IF called = "fieldsMap" THEN result ELSE Undef
    /\ UNCHANGED <<info0, options0>>

CallFieldsList ==
    /\ called' = "fieldsList"
    /\ result' = fieldsList(info, options)
    /\ info' = InfoAfterVerify(info)
    /\ options' = OptionsAfterCall(info, options)
    /\ repeated' = (called = "fieldsList")
    /\ previous' = IF called = "fieldsList" THEN result ELSE Undef
    /\ UNCHANGED <<info0, options0>>

CallFieldsProjection ==
    /\ called' = "fieldsProjection"
    /\ result' = fieldsProjection(info, options)
    /\ info' = InfoAfterVerify(info)
    /\ options' = OptionsAfterCall(info, options)
    /\ repeated' = (called = "fieldsProjection")
    /\ previous' = IF called = "fieldsProjection" THEN result ELSE Undef
    /\ UNCHANGED <<info0, options0>>

Next == CallFieldsMap \/ CallFieldsList \/ CallFieldsProjection

\* the state a resolver is entered in, with the arguments it was given
Start(inf, opt) ==
    /\ info = inf
    /\ options = opt
    /\ info0 = inf
    /\ options0 = opt
    /\ called = "none"
    /\ result = Undef
    /\ repeated = FALSE
    /\ previous = Undef

---------------------------------------------------------------------------
(* Inputs                                                                  *)

FA == <<"a">>

FB == <<"b">>

FC == <<"c">>

FD == <<"d">>

\* the field being resolved
FR == <<"r">>

FQ == <<"q">>

SeqsUpTo(S, n) == UNION {[1..k -> S] : k \in 0..n}

SeqsFrom1(S, n) == UNION {[1..k -> S] : k \in 1..n}

RECURSIVE Join(_)
\* segments joined with dots
Join(segs) ==
    IF Len(segs) = 1 THEN segs[1] ELSE segs[1] \o <<Dot>> \o Join(Tail(segs))

NoFragments == [n \in {} |-> Undef]

NoVariables == [n \in {} |-> Undef]

OptSkip(list) == Options(Undef, Undef, Undef, Undef, JSArr(list))

OptPath(path) == Options(JSStr(path), Undef, Undef, Undef, Undef)

OptDirectives(b) == Options(Undef, Undef, JSBool(b), Undef, Undef)

\* info for the resolver of field r with the given selection
InfoOf(sels, fragments, variableValues) ==
    Info(JSArr(<<Node(FR, sels)>>), Undef, FR, fragments, variableValues)

---------------------------------------------------------------------------
(* Entry inputs: every shape of the execution-info object                  *)

MaxFieldNodes == 2

EntrySelection == <<Leaf(FA), Node(FB, <<Leaf(FC)>>)>>

EntryNodes == {Node(FR, EntrySelection), Leaf(FR), Node(FQ, <<Leaf(FD)>>)}

EntryLists == {Undef} \cup {JSArr(l) : l \in SeqsUpTo(EntryNodes, MaxFieldNodes)}

EntryInfos ==
    {Undef, Null} \cup
    {Info(fn, fa, FR, NoFragments, NoVariables) : fn \in EntryLists, fa \in EntryLists}

EntryOptions ==
    {Undef, NoOptions, OptDirectives(TRUE), OptDirectives(FALSE),
     OptSkip(<<FA>>), OptSkip(<<FB, Join(<<FB, FC, FD>>)>>), OptPath(FB),
     Options(Undef, Obj(<<<<FA, JSStr(FD)>>>>), Undef, JSTrue, Undef)}

InitEntry == \E inf \in EntryInfos, opt \in EntryOptions : Start(inf, opt)

SpecEntry == InitEntry /\ [][Next]_vars

---------------------------------------------------------------------------
(* Directive inputs: one selection carrying a list of directives, as a     *)
(* leaf field, a field with sub-selections, an inline fragment or a        *)
(* fragment spread, beside a plain sibling                                 *)

MaxDirectives == 2

\* the fragment of the directive inputs
FF == <<"F">>

FragmentDefinition(sels) ==
    [kind |-> "FragmentDefinition", hasSelectionSet |-> TRUE, selections |-> sels]

DirectiveArgs == {BoolArg(TRUE), BoolArg(FALSE), VarArg("v"), OtherArg}

DirectiveSet ==
    {Directive(n, <<arg>>) : n \in {"skip", "include"}, arg \in DirectiveArgs}
    \cup {Directive("deprecated", <<BoolArg(TRUE)>>)}

DirectiveLists == SeqsUpTo(DirectiveSet, MaxDirectives)

InnerDirectiveLists ==
    {<<>>, <<Directive("skip", <<BoolArg(TRUE)>>)>>,
     <<Directive("include", <<VarArg("v")>>)>>}

Inner(ds2) == <<Field(FB, ds2, FALSE, <<>>), Leaf(FC)>>

DirectiveTargets(ds1, ds2) ==
    {Field(FA, ds1, FALSE, <<>>), Field(FA, ds1, TRUE, Inner(ds2)),
     InlineFragment(ds1, Inner(ds2)), FragmentSpread(FF, ds1)}

DirectiveInfo(t, ds2, b) ==
    InfoOf(<<t, Leaf(FD)>>, [n \in {FF} |-> FragmentDefinition(Inner(ds2))],
           [n \in {"v"} |-> JSBool(b)])

DirectiveOptions == {Undef, NoOptions, OptDirectives(TRUE), OptDirectives(FALSE)}

InitDirectives ==
    \E ds1 \in DirectiveLists, ds2 \in InnerDirectiveLists, b \in BOOLEAN :
        \E t \in DirectiveTargets(ds1, ds2), opt \in DirectiveOptions :
            Start(DirectiveInfo(t, ds2, b), opt)

SpecDirectives == InitDirectives /\ [][Next]_vars

---------------------------------------------------------------------------
(* Fragment inputs: every selection list of the width, two levels deep,    *)
(* of fields, inline fragments and spreads of the table's fragments        *)

MaxWidth == 2

\* a second fragment, spread by the first
FG == <<"G">>

FragmentNames == {FA, FB}

Leaves == {Leaf(n) : n \in FragmentNames}

LeafLists == SeqsFrom1(Leaves, MaxWidth)

\* acyclic fragment tables: none, one fragment, a fragment spreading
\* another, and a fragment that has the name of a field
FragmentTables ==
    {NoFragments,
     [n \in {FF} |-> FragmentDefinition(<<Leaf(FA), Node(FB, <<Leaf(FA)>>)>>)],
     [n \in {FF, FG} |->
        IF n = FF
        THEN FragmentDefinition(<<FragmentSpread(FG, <<>>), Node(FB, <<Leaf(FB)>>)>>)
        ELSE FragmentDefinition(<<Node(FB, <<Leaf(FA)>>), Leaf(FA)>>)],
     [n \in {FA} |-> FragmentDefinition(<<Leaf(FB)>>)]}

\* the spreads a query may hold: of the fragments defined, not of a field
SpreadsOf(table) ==
    {FragmentSpread(n, <<>>) : n \in (DOMAIN table) \cap {FF, FG}}

SelectionNodes(table) ==
    Leaves
    \cup {Node(n, l) : n \in FragmentNames, l \in LeafLists}
    \cup {InlineFragment(<<>>, l) : l \in LeafLists}
    \cup SpreadsOf(table)

InitFragments ==
    \E table \in FragmentTables, opt \in {Undef, NoOptions} :
        \E l \in SeqsFrom1(SelectionNodes(table), MaxWidth) :
            Start(InfoOf(l, table, NoVariables), opt)

SpecFragments == InitFragments /\ [][Next]_vars

---------------------------------------------------------------------------
(* Skip inputs: the spec's example selection and a deeper one with a       *)
(* repeated field inside an inline fragment, under every list of patterns  *)

MaxSegments == 3

MaxPatterns == 2

MaxWildcardPatterns == 2

SkipSelections ==
    {<<Node(FA, <<Leaf(FB), Leaf(FC)>>), Leaf(FD)>>,
     <<Node(FA, <<Node(FB, <<Leaf(FC), Leaf(FD)>>), Leaf(FC)>>),
       InlineFragment(<<>>, <<Node(FA, <<Leaf(FD)>>), Leaf(FB)>>)>>}

Segments == {FA, FB, FC, <<Star>>}

\* every dot-path of up to MaxSegments segments
SkipPatterns == {Join(segs) : segs \in SeqsFrom1(Segments, MaxSegments)}

SkipInfos == {InfoOf(l, NoFragments, NoVariables) : l \in SkipSelections}

InitSkip ==
    \E inf \in SkipInfos, list \in SeqsUpTo(SkipPatterns, MaxPatterns) :
        Start(inf, OptSkip(list))

SpecSkip == InitSkip /\ [][Next]_vars

\* patterns with wildcard segments beside exact ones: `*` alone, after a
\* path, before a name, and inside a segment
WildcardPatterns ==
    {Join(<<FA, FB>>), Join(<<FA, FC>>), Join(<<FA, <<Star>>>>),
     Join(<<FA, FB, FC>>), Join(<<FA, FB, <<Star>>>>), FD,
     <<Star>>, Join(<<<<Star>>, FB>>), <<"a", Star>>, Join(<<<<"a", Star>>, FC>>),
     Join(<<<<Star, "b">>, FD>>)}

InitWildcard ==
    \E inf \in SkipInfos, list \in SeqsUpTo(WildcardPatterns, MaxWildcardPatterns) :
        Start(inf, OptSkip(list))

SpecWildcard == InitWildcard /\ [][Next]_vars

---------------------------------------------------------------------------
(* Projection inputs: selections with leaves at depth 1, 2 and 3 and a     *)
(* field left empty, under every path, transform table and parent flag     *)

MaxTransforms == 2

FX == <<"x">>

ProjectionSelections ==
    {<<Leaf(FA), Leaf(FB)>>,
     <<Node(FA, <<Leaf(FB), Leaf(FC)>>), Leaf(FD)>>,
     <<Node(FA, <<Leaf(FA), Node(FB, <<Leaf(FC)>>)>>), Leaf(FB),
       Node(FC, <<Field(FD, <<Directive("skip", <<BoolArg(TRUE)>>)>>, FALSE, <<>>)>>)>>}

ProjectionInfos == {InfoOf(l, NoFragments, NoVariables) : l \in ProjectionSelections}

ProjectionPaths ==
    {Undef, JSStr(<<>>), JSStr(FA), JSStr(FD), JSStr(Join(<<FA, FB>>)),
     JSStr(Join(<<FX, FB>>)), JSStr(Join(<<FD, FA>>)), JSStr(<<"a", Dot>>)}

TransformKeys == {FA, FB, FD, Join(<<FA, FB>>), Join(<<FA, FC>>)}

TransformValues == {FX, FB}

TransformEntries == {<<k, JSStr(v)>> : k \in TransformKeys, v \in TransformValues}

\* the tables of up to MaxTransforms renames, a key named once
TransformTables ==
    {Obj(e) : e \in {l \in SeqsUpTo(TransformEntries, MaxTransforms) :
                        \A i, j \in 1..Len(l) : l[i][1] = l[j][1] => i = j}}

ProjectionOptions ==
    {Undef} \cup
    {Options(path, tr, Undef, keep, Undef) :
        path \in ProjectionPaths, tr \in {Undef} \cup TransformTables,
        keep \in {Undef, JSTrue}}

InitProjection == \E inf \in ProjectionInfos, opt \in ProjectionOptions : Start(inf, opt)

SpecProjection == InitProjection /\ [][Next]_vars

---------------------------------------------------------------------------
(* Repeated-call inputs: selections with directives and a fragment spread, *)
(* in an info that carries them as the field-node list, as the legacy list *)
(* only, or as the legacy list beside another field-node list, under       *)
(* options with and without the keys the operations read and write         *)

MaxSelections == 2

RepeatNodes ==
    {Field(FA, <<Directive("skip", <<VarArg("v")>>)>>, FALSE, <<>>),
     Node(FB, <<Field(FC, <<Directive("include", <<BoolArg(FALSE)>>)>>, FALSE, <<>>),
                Leaf(FD)>>),
     FragmentSpread(FF, <<Directive("include", <<VarArg("v")>>)>>),
     Leaf(FD)}

RepeatFragments == [n \in {FF} |-> FragmentDefinition(<<Node(FB, <<Leaf(FX)>>)>>)]

\* the field-node list and the legacy list of an info whose selection is l
RepeatLists(l) ==
    {<<JSArr(<<Node(FR, l)>>), Undef>>,
     <<Undef, JSArr(<<Node(FR, l)>>)>>,
     <<JSArr(<<>>), JSArr(<<Node(FR, l)>>)>>,
     <<JSArr(<<Node(FR, l)>>), JSArr(<<Leaf(FR)>>)>>}

RepeatInfo(lists, b) ==
    Info(lists[1], lists[2], FR, RepeatFragments, [n \in {"v"} |-> JSBool(b)])

RepeatOptions ==
    {Undef, NoOptions, OptDirectives(TRUE), OptDirectives(FALSE),
     OptSkip(<<FD>>), OptSkip(<<Join(<<FB, <<Star>>>>)>>),
     OptSkip(<<FB, Join(<<FB, FC, FD>>)>>), OptPath(FB),
     Options(JSStr(FB), Obj(<<<<FD, JSStr(FX)>>>>), Undef, JSTrue, Undef),
     Options(Undef, Obj(<<<<FA, JSStr(FD)>>, <<Join(<<FB, FD>>), JSStr(FC)>>>>),
             Undef, JSTrue, JSArr(<<Join(<<FB, FX>>)>>))}

InitRepeat ==
    \E l \in SeqsFrom1(RepeatNodes, MaxSelections), b \in BOOLEAN :
        \E lists \in RepeatLists(l), opt \in RepeatOptions :
            Start(RepeatInfo(lists, b), opt)

SpecRepeat == InitRepeat /\ [][Next]_vars

---------------------------------------------------------------------------
(* All the inputs                                                          *)

Init ==
    \/ InitEntry
    \/ InitDirectives
    \/ InitFragments
    \/ InitSkip
    \/ InitWildcard
    \/ InitProjection
    \/ InitRepeat

Spec == Init /\ [][Next]_vars

---------------------------------------------------------------------------
(* Claims about the entry resolver and the arguments                       *)

EmptyResult(op) == IF op = "fieldsList" THEN JSArr(<<>>) ELSE EmptyObj

HasList(x) == x.t = "array"

\* the execution-info object carries only the legacy alias list
LegacyOnly(inf) == inf.t = "object" /\ ~HasList(inf.fieldNodes) /\ HasList(inf.fieldASTs)

\* the list the claim says is searched
ListSearched(inf) == IF HasList(inf.fieldNodes) THEN inf.fieldNodes.a ELSE inf.fieldASTs.a

Matching(inf) == {i \in 1..Len(ListSearched(inf)) : ListSearched(inf)[i].name = inf.fieldName}

\* absent info, no list at all, no field node of the current name, or the
\* (first) field node of that name without a selection set
NoFieldsRequested(inf) ==
    \/ inf.t # "object"
    \/ ~HasList(inf.fieldNodes) /\ ~HasList(inf.fieldASTs)
    \/ (HasList(inf.fieldNodes) \/ HasList(inf.fieldASTs)) /\ Matching(inf) = {}
    \/ /\ HasList(inf.fieldNodes) \/ HasList(inf.fieldASTs)
       /\ Matching(inf) # {}
       /\ ~ListSearched(inf)[CHOOSE i \in Matching(inf) : \A j \in Matching(inf) : i <= j].hasSelectionSet

\* C7: with the execution-info object absent, without field-node list and
\* legacy list, without a field node of the current name, or with that node
\* lacking a selection set, every operation returns its empty result and
\* does not throw; an info carrying only the legacy list gives what the
\* same list gives as the field-node list.
C7_EmptyOnNoFields ==
    called # "none" =>
        /\ NoFieldsRequested(info0) => result = EmptyResult(called)
        /\ LegacyOnly(info0) =>
              result = Ret(called,
                           [info0 EXCEPT !.fieldNodes = info0.fieldASTs, !.fieldASTs = Undef],
                           options0)

\* a scalar field's resolver asks for its list with a skip list that would
\* not compile: the empty list comes back
C7_Witness ==
    /\ called = "fieldsList"
    /\ info0.t = "object"
    /\ info0.fieldNodes = JSArr(<<Leaf(FR)>>)
    /\ options0 = OptSkip(<<FB, Join(<<FB, FC, FD>>)>>)
    /\ result = JSArr(<<>>)

\* C10: after any call the execution-info object and the caller's options
\* object equal what they were before the call.
C10_ArgumentsUnchanged ==
    called # "none" => info = info0 /\ options = options0

---------------------------------------------------------------------------
(* Claims about directives                                                 *)

\* the caller supplied no withDirectives
NotSupplied(opt) == opt = Undef \/ opt.withDirectives = Undef

SupplyTrue(opt) ==
    IF opt = Undef THEN OptDirectives(TRUE) ELSE [opt EXCEPT !.withDirectives = JSTrue]

\* C1: when the caller supplies no withDirectives (no options at all, or
\* options without the key), each operation returns what it returns with
\* withDirectives: true.
C1_DefaultHonoursDirectives ==
    called # "none" /\ NotSupplied(options0) =>
        result = Ret(called, info0, SupplyTrue(options0))

\* what the claim takes a directive argument to evaluate to
ArgEvaluates(arg, vs, b) ==
    \/ arg.kind = "BooleanValue" /\ arg.value = b
    \/ arg.kind = "Variable" /\ arg.name \in DOMAIN vs /\ vs[arg.name] = JSBool(b)

\* the directive rejects its node: a skip whose argument is true, an
\* include whose argument is false
Rejects(d, vs) ==
    \E i \in 1..Len(d.arguments) :
        \/ d.name = "skip" /\ ArgEvaluates(d.arguments[i], vs, TRUE)
        \/ d.name = "include" /\ ArgEvaluates(d.arguments[i], vs, FALSE)

Rejected(node, vs) == \E i \in 1..Len(node.directives) : Rejects(node.directives[i], vs)

RECURSIVE PruneSels(_, _)
\* the selections without the rejected nodes and their subtrees
PruneSels(sels, vs) ==
    IF sels = <<>> THEN <<>>
    ELSE IF Rejected(Head(sels), vs) THEN PruneSels(Tail(sels), vs)
    ELSE <<[Head(sels) EXCEPT !.selections = PruneSels(Head(sels).selections, vs)]>>
         \o PruneSels(Tail(sels), vs)

PruneInfo(inf) ==
    [inf EXCEPT
        !.fieldNodes = JSArr(PruneSels(inf.fieldNodes.a, inf.variableValues)),
        !.fragments = [n \in DOMAIN inf.fragments |->
                         FragmentDefinition(PruneSels(inf.fragments[n].selections,
                                                      inf.variableValues))]]

\* directive-awareness is on: withDirectives given as true, or defaulted
\* on the options object that was passed or that fieldsList made
AwarenessOn(op, opt) ==
    IF opt = Undef THEN op = "fieldsList" ELSE opt.withDirectives # JSFalse

\* C5: with directive-awareness on, a selection node contributes exactly
\* when no skip directive on it evaluates to true and no include directive
\* on it evaluates to false (literal or variable; other directive names and
\* other argument kinds never exclude), and a rejected node's subtree is not
\* traversed: the result is that of the selection with the rejected nodes
\* removed, read without looking at directives.
C5_DirectivesDecideInclusion ==
    called # "none" /\ AwarenessOn(called, options0) =>
        result = Ret(called, PruneInfo(info0), OptDirectives(FALSE))

\* a field with sub-selections carrying @skip(if: true) @include(if: true)
\* is left out with all that is under it
C5_Witness ==
    /\ called = "fieldsMap"
    /\ options0 = OptDirectives(TRUE)
    /\ info0.fieldNodes.a[1].selections[1] =
          Field(FA, <<Directive("skip", <<BoolArg(TRUE)>>),
                      Directive("include", <<BoolArg(TRUE)>>)>>, TRUE, Inner(<<>>))
    /\ result = Obj(<<<<FD, JSFalse>>>>)

---------------------------------------------------------------------------
(* Claims about fragments                                                  *)

RECURSIVE Inlined(_, _)
\* the Field nodes of a level, every inline fragment and every fragment
\* spread replaced by its selections
Inlined(sels, table) ==
    IF sels = <<>> THEN <<>>
    ELSE LET n == Head(sels)
         IN  (CASE n.kind = "Field" -> <<n>>
                [] n.kind = "InlineFragment" -> Inlined(n.selections, table)
                [] n.kind = "FragmentSpread" -> Inlined(table[n.name].selections, table))
             \o Inlined(Tail(sels), table)

RECURSIVE SubSelections(_, _)
\* the sub-selections of all the occurrences of a name, one after another
SubSelections(fields, name) ==
    IF fields = <<>> THEN <<>>
    ELSE (IF Head(fields).name = name THEN getNodes(Head(fields)) ELSE <<>>)
         \o SubSelections(Tail(fields), name)

MapLeaf == [k |-> "leaf"]

MapOf(m) == [k |-> "map", m |-> m]

RECURSIVE Requested(_, _)
\* the map the claim describes, as a function from the names of a level
Requested(sels, table) ==
    LET fields == Inlined(sels, table)
    IN  [n \in {fields[i].name : i \in 1..Len(fields)} |->
            IF \E i \in 1..Len(fields) : fields[i].name = n /\ fields[i].hasSelectionSet
            THEN MapOf(Requested(SubSelections(fields, n), table))
            ELSE MapLeaf]

RECURSIVE AsMap(_)
\* a presence map as a function from its keys
AsMap(o) ==
    [n \in SeqRange(Keys(o)) |->
        IF Get(o, n) = JSFalse THEN MapLeaf ELSE MapOf(AsMap(Get(o, n)))]

RECURSIVE KeysOnce(_)
\* no key twice at any level
KeysOnce(o) ==
    /\ \A i, j \in 1..Len(o.e) : o.e[i][1] = o.e[j][1] => i = j
    /\ \A i \in 1..Len(o.e) : IsObj(o.e[i][2]) => KeysOnce(o.e[i][2])

RequestedOf(inf) == Requested(getNodes(inf.fieldNodes.a[1]), inf.fragments)

\* C2: without directives and skip patterns, for every acyclic fragment
\* table, the map fieldsMap returns holds at each level exactly the names of
\* the Field nodes reached by inlining inline fragments and fragment
\* spreads, each once, a repeated field with the union of its occurrences'
\* sub-selections, a map whenever an occurrence has sub-selections.
C2_ExactlyTheInlinedFields ==
    called = "fieldsMap" =>
        /\ IsObj(result)
        /\ KeysOnce(result)
        /\ AsMap(result) = RequestedOf(info0)

---------------------------------------------------------------------------
(* Claims about skip patterns                                              *)

RECURSIVE PathsOf(_)
\* the paths (sequences of names) of all the fields of a map
PathsOf(m) ==
    {<<n>> : n \in DOMAIN m}
    \cup UNION {{<<n>> \o q : q \in PathsOf(m[n].m)} : n \in {x \in DOMAIN m : m[x].k = "map"}}

ResultPaths == PathsOf(AsMap(result))

RequestedPaths == PathsOf(RequestedOf(info0))

Prefixes(q) == {SubSeq(q, 1, k) : k \in 1..Len(q)}

SkipOf(opt) == IF opt # Undef /\ Truthy(opt.skip) THEN opt.skip.a ELSE <<>>

WildcardFree(list) == \A i \in 1..Len(list) : ~ContainsStar(list[i])

\* the dot-paths the patterns name
Named(list) == {Split(list[i]) : i \in 1..Len(list)}

\* C3: for a wildcard-free list of patterns, in any order, a field is
\* absent from the map fieldsMap returns exactly when its path or a prefix
\* of its path is one of the patterns.
C3_SkippedExactlyWhenNamed ==
    called = "fieldsMap" /\ WildcardFree(SkipOf(options0)) /\ IsObj(result) =>
        ResultPaths = {q \in RequestedPaths : Prefixes(q) \cap Named(SkipOf(options0)) = {}}

\* C4: for every list of skip patterns the operations return a result and
\* raise no error.
C4_NeverThrows == called # "none" => result # Throw

\* q lies under p
Under(p, q) == Len(q) > Len(p) /\ SubSeq(q, 1, Len(p)) = p

RECURSIVE ScopesOf(_)
\* a skip tree and the sub-trees in it
ScopesOf(tree) ==
    {tree} \cup UNION {ScopesOf(tree.e[i][2]) : i \in {j \in 1..Len(tree.e) : IsObj(tree.e[j][2])}}

\* the wildcard keys of a scope that match a name
WildcardHits(scope, n) ==
    {k \in SeqRange(Keys(scope)) : ContainsStar(k) /\ RegexTest(k, n)}

\* resolution of a name in a scope as the claim orders it
ResolvedByPriority(scope, n) ==
    IF HasKey(scope, n) THEN verifySkip(n, scope) = Get(scope, n)
    ELSE IF \E k \in WildcardHits(scope, n) : Get(scope, k) = JSTrue
    THEN verifySkip(n, scope) = JSTrue
    ELSE IF WildcardHits(scope, n) # {}
    THEN verifySkip(n, scope) \in {Get(scope, k) : k \in WildcardHits(scope, n)}
    ELSE verifySkip(n, scope) = JSFalse

\* C9: with the patterns p.x then p.* every field under p is absent from
\* the map and p itself, like every field not under p, is kept; in every
\* scope of a compiled skip tree an exact key decides before any wildcard
\* key, and among matching wildcard keys one that is true decides.
C9_WildcardAfterExact ==
    /\ called = "fieldsMap" =>
          \A p \in RequestedPaths, x \in {FA, FB, FC, FD} :
              SkipOf(options0) = <<Join(Append(p, x)), Join(Append(p, <<Star>>))>> =>
                  /\ IsObj(result)
                  /\ ResultPaths = {q \in RequestedPaths : ~Under(p, q)}
    /\ skipTree(SkipOf(options0)) # Throw =>
          \A scope \in ScopesOf(skipTree(SkipOf(options0))), n \in {FA, FB, FC, FD} :
              ResolvedByPriority(scope, n)

\* { a { b c } d } with skip ["a.b", "a.*"]: a is kept, empty
C9_Witness ==
    /\ called = "fieldsMap"
    /\ getNodes(info0.fieldNodes.a[1]) = <<Node(FA, <<Leaf(FB), Leaf(FC)>>), Leaf(FD)>>
    /\ SkipOf(options0) = <<Join(<<FA, FB>>), Join(<<FA, <<Star>>>>)>>
    /\ result = Obj(<<<<FA, EmptyObj>>, <<FD, JSFalse>>>>)

---------------------------------------------------------------------------
(* Claims about the projection and the branch                              *)

\* the presence map fieldsMap produces for the arguments
PresenceMap == fieldsMap(info0, options0)

RECURSIVE LeafPathsOf(_)
\* the paths of the leaves of a map
LeafPathsOf(m) ==
    {<<n>> : n \in {x \in DOMAIN m : m[x].k = "leaf"}}
    \cup UNION {{<<n>> \o q : q \in LeafPathsOf(m[n].m)} :
                   n \in {x \in DOMAIN m : m[x].k = "map"}}

LeafPaths == LeafPathsOf(AsMap(PresenceMap))

\* the projection key of a leaf: the transform table's entry for its
\* dot-path, or the dot-path
KeyOfLeaf(q) ==
    IF HasKey(TransformOf(options0), Join(q))
    THEN Get(TransformOf(options0), Join(q)).s
    ELSE Join(q)

AllOnes(o) == \A i \in 1..Len(o.e) : o.e[i][2] = One

Flattened == called = "fieldsProjection" /\ ~KeepParent(options0) /\ IsObj(result)

\* C6 as stated: without keepParentField the projection has one key per
\* leaf of the presence map, whatever the transform table: as many keys as
\* leaves, every value 1.
C6_OneKeyPerLeaf ==
    Flattened =>
        /\ Cardinality(SeqRange(Keys(result))) = Cardinality(LeafPaths)
        /\ Len(Keys(result)) = Cardinality(LeafPaths)
        /\ AllOnes(result)

\* C6 amended: without keepParentField the keys of the projection are
\* exactly the leaves' dot-paths, each replaced by the transform table's
\* entry for it when there is one, every value 1; there are as many keys
\* as leaves whenever no two leaves get the same key.
C6_KeysAreRenamedLeafPaths ==
    Flattened =>
        /\ SeqRange(Keys(result)) = {KeyOfLeaf(q) : q \in LeafPaths}
        /\ KeysOnce(result)
        /\ AllOnes(result)
        /\ (\A q1, q2 \in LeafPaths : KeyOfLeaf(q1) = KeyOfLeaf(q2) => q1 = q2)
              => Len(Keys(result)) = Cardinality(LeafPaths)

\* { a { b c } d } with a.b renamed x: keys d, x and a.c
C6_Witness ==
    /\ called = "fieldsProjection"
    /\ getNodes(info0.fieldNodes.a[1]) = <<Node(FA, <<Leaf(FB), Leaf(FC)>>), Leaf(FD)>>
    /\ options0 = Options(Undef, Obj(<<<<Join(<<FA, FB>>), JSStr(FX)>>>>), Undef, Undef, Undef)
    /\ result = Obj(<<<<FD, One>>, <<FX, One>>, <<Join(<<FA, FC>>), One>>>>)

RECURSIVE Follow(_, _)
\* the sub-map the segments lead to; the empty map when a segment is
\* missing or names a leaf
Follow(m, segs) ==
    IF segs = <<>> THEN m
    ELSE IF Head(segs) \notin DOMAIN m THEN [n \in {} |-> MapLeaf]
    ELSE IF m[Head(segs)].k = "leaf" THEN [n \in {} |-> MapLeaf]
    ELSE Follow(m[Head(segs)].m, Tail(segs))

\* the whole map: what fieldsMap gives for the same arguments without path
WholeMap == fieldsMap(info0, IF options0 = Undef THEN Undef ELSE [options0 EXCEPT !.path = Undef])

PathOf(opt) == IF opt = Undef THEN Undef ELSE opt.path

---------------------------------------------------------------------------
(* Claims about repeated calls                                             *)

\* C11: a call to the operation that the call before it, on the same two
\* argument objects, was to returns a value structurally equal to the one
\* that call returned (an exception for an exception); and every call,
\* whichever calls to the three operations came before it and whatever
\* they wrote to the two objects, returns what its operation returns on
\* the objects as first passed, which is what the first call returned if
\* it was to that operation.
C11_SecondCallEqualsFirst ==
    /\ repeated => result = previous
    /\ called # "none" => result = Ret(called, info0, options0)

\* fieldsMap is called again on an info whose legacy list the call before
\* aliased and on options whose withDirectives the call before wrote; a
\* directive rejects part of the selection, and the same non-empty map
\* comes back
C11_Witness ==
    /\ repeated
    /\ called = "fieldsMap"
    /\ info0.fieldNodes = Undef
    /\ info.fieldNodes = info0.fieldASTs
    /\ options0 = NoOptions
    /\ options = OptDirectives(TRUE)
    /\ result = previous
    /\ result # Ret("fieldsMap", info0, OptDirectives(FALSE))
    /\ IsObj(result)
    /\ result # EmptyObj

===========================================================================
